---------------------------- MODULE Spec2Model ----------------------------
(***************************************************************************)
(* A model of api-server.py: a Flask application that bridges the REST     *)
(* actions of the DocumentDB data API (insertOne, insertMany, find,        *)
(* aggregate, updateOne, updateMany, deleteOne, deleteMany, health) to a   *)
(* MongoDB client, behind a static Basic-authentication check.             *)
(*                                                                         *)
(* Text is modelled as a sequence of one-character strings, bytes as       *)
(* integers 0..255.  The backing MongoDB is modelled as the sequence of    *)
(* documents of each collection, in natural (insertion) order.             *)
(***************************************************************************)
EXTENDS Integers, Sequences, FiniteSets, TLC

VARIABLES
    store,      \* the documents held by the MongoDB behind `client`, per namespace
    next_oid,   \* how many ObjectIds the driver has generated so far
    req,        \* the HTTP request being answered (NoRequest when none)
    resp,       \* the HTTP response of that request (NoResponse when none)
    before,     \* history: `store` as it was when the request arrived
    mongo_up    \* whether the MongoDB behind MONGODB_URI answers

vars == <<store, next_oid, req, resp, before, mongo_up>>

-----------------------------------------------------------------------------
(* Outcomes of Python expressions: a value, or a raised exception.         *)

Return(v) == [raised |-> FALSE, value |-> v]

Raise(exc, msg) == [raised |-> TRUE, exc |-> exc, message |-> msg]

-----------------------------------------------------------------------------
(* Text and bytes.                                                         *)

\* The printable ASCII characters, code points 32..126, in order (the
\* grave accent, which the lexer cannot quote, is spelled out).
Ascii ==
    << " ", "!", "\"", "#", "$", "%", "&", "'", "(", ")", "*", "+", ",", "-", ".", "/",
       "0", "1", "2", "3", "4", "5", "6", "7", "8", "9", ":", ";", "<", "=", ">", "?",
       "@", "A", "B", "C", "D", "E", "F", "G", "H", "I", "J", "K", "L", "M", "N", "O",
       "P", "Q", "R", "S", "T", "U", "V", "W", "X", "Y", "Z", "[", "\\", "]", "^", "_",
       "BACKTICK", "a", "b", "c", "d", "e", "f", "g", "h", "i", "j", "k", "l", "m", "n", "o",
       "p", "q", "r", "s", "t", "u", "v", "w", "x", "y", "z", "{", "|", "}", "~" >>

\* chr() of a code point below 128.  The control characters, none of which
\* occurs in the configured credentials, are all written "CTRL".
Chr(b) == IF b >= 32 /\ b <= 126 THEN Ascii[b - 31] ELSE "CTRL"

\* The base64 alphabet, in value order.
B64Alphabet ==
    << "A", "B", "C", "D", "E", "F", "G", "H", "I", "J", "K", "L", "M", "N", "O", "P",
       "Q", "R", "S", "T", "U", "V", "W", "X", "Y", "Z", "a", "b", "c", "d", "e", "f",
       "g", "h", "i", "j", "k", "l", "m", "n", "o", "p", "q", "r", "s", "t", "u", "v",
       "w", "x", "y", "z", "0", "1", "2", "3", "4", "5", "6", "7", "8", "9", "+", "/" >>

\* table_a2b_base64: the value of each character of the alphabet, and 64 for
\* every other character.
table_a2b_base64 ==
    [c \in {Ascii[i] : i \in 1..Len(Ascii)} |->
        IF \E i \in 1..Len(B64Alphabet) : B64Alphabet[i] = c
        THEN (CHOOSE i \in 1..Len(B64Alphabet) : B64Alphabet[i] = c) - 1
        ELSE 64]

\* s[from..], Python's s[from-1:]
Tail_from(s, from) == SubSeq(s, from, Len(s))

\* str.startswith
startswith(s, prefix) ==
    Len(s) >= Len(prefix) /\ SubSeq(s, 1, Len(prefix)) = prefix

(* base64.b64decode(s) with validate=False, that is binascii.a2b_base64 in  *)
(* its non-strict mode: characters outside the alphabet are skipped, a pad  *)
(* that completes a quad ends the parse (what follows is ignored), and an   *)
(* incomplete last quad raises binascii.Error.                              *)
RECURSIVE a2b_base64(_, _, _, _, _, _)
a2b_base64(data, i, quad_pos, leftchar, pads, bin) ==
    IF i > Len(data)
    THEN IF quad_pos # 0
         THEN Raise("binascii.Error", "Incorrect padding")
         ELSE Return(bin)
    ELSE LET c == data[i] IN
         IF c = "="
         THEN IF quad_pos >= 2 /\ quad_pos + pads + 1 >= 4
              THEN Return(bin)
              ELSE a2b_base64(data, i + 1, quad_pos, leftchar,
                              IF quad_pos >= 2 THEN pads + 1 ELSE pads, bin)
         ELSE IF table_a2b_base64[c] >= 64
         THEN a2b_base64(data, i + 1, quad_pos, leftchar, pads, bin)
         ELSE LET v == table_a2b_base64[c] IN
              CASE quad_pos = 0 ->
                     a2b_base64(data, i + 1, 1, v, 0, bin)
                [] quad_pos = 1 ->
                     a2b_base64(data, i + 1, 2, v % 16, 0,
                                Append(bin, leftchar * 4 + v \div 16))
                [] quad_pos = 2 ->
                     a2b_base64(data, i + 1, 3, v % 4, 0,
                                Append(bin, leftchar * 16 + v \div 4))
                [] quad_pos = 3 ->
                     a2b_base64(data, i + 1, 0, 0, 0,
                                Append(bin, leftchar * 64 + v))

b64decode(s) == a2b_base64(s, 1, 0, 0, 0, <<>>)

(* bytes.decode('utf-8'): one character per byte below 128.  A byte of 128  *)
(* or more either breaks the encoding (UnicodeDecodeError) or is part of a  *)
(* character beyond ASCII; a lead byte followed by the continuation bytes   *)
(* it announces is decoded to one such character, written "NONASCII".       *)
Utf8Len(b) ==
    CASE b < 128 -> 1
      [] b >= 194 /\ b <= 223 -> 2
      [] b >= 224 /\ b <= 239 -> 3
      [] b >= 240 /\ b <= 244 -> 4
      [] OTHER -> 0

RECURSIVE decode_utf8(_, _, _)
decode_utf8(bytes, i, out) ==
    IF i > Len(bytes) THEN Return(out)
    ELSE LET n == Utf8Len(bytes[i]) IN
         IF n = 0 \/ i + n - 1 > Len(bytes)
            \/ \E j \in (i + 1)..(i + n - 1) : bytes[j] < 128 \/ bytes[j] > 191
         THEN Raise("UnicodeDecodeError", "invalid utf-8")
         ELSE decode_utf8(bytes, i + n,
                          Append(out, IF n = 1 THEN Chr(bytes[i])
                                      ELSE "NONASCII"))

\* The index of the first occurrence of c in s, or 0.
Index(s, c) ==
    IF \E i \in 1..Len(s) : s[i] = c
    THEN CHOOSE i \in 1..Len(s) : s[i] = c /\ \A j \in 1..(i - 1) : s[j] # c
    ELSE 0

\* str.split(sep, 1)
split1(s, sep) ==
    LET i == Index(s, sep) IN
    IF i = 0 THEN <<s>> ELSE <<SubSeq(s, 1, i - 1), Tail_from(s, i + 1)>>

-----------------------------------------------------------------------------
(* authenticate_request                                                    *)

BasicPrefix == <<"B", "a", "s", "i", "c", " ">>

Username == <<"t", "e", "s", "t", "u", "s", "e", "r">>

Password == <<"t", "e", "s", "t", "p", "a", "s", "s">>

\* request.headers.get('Authorization', ''): an absent header is the empty text.
NoHeader == <<>>

\* The body of the try block: decode, split, compare.
check_credentials(auth_header) ==
    LET raw == b64decode(Tail_from(auth_header, Len(BasicPrefix) + 1)) IN
    IF raw.raised THEN raw
    ELSE LET credentials == decode_utf8(raw.value, 1, <<>>) IN
         IF credentials.raised THEN credentials
         ELSE LET parts == split1(credentials.value, ":") IN
              IF Len(parts) # 2
              THEN Raise("ValueError", "not enough values to unpack")
              ELSE Return(parts[1] = Username /\ parts[2] = Password)

authenticate_request(auth_header) ==
    IF ~startswith(auth_header, BasicPrefix) THEN FALSE
    ELSE LET r == check_credentials(auth_header) IN
         IF r.raised THEN FALSE ELSE r.value

-----------------------------------------------------------------------------
(* Documents and identifiers.                                              *)

\* _id values as BSON holds them, a type and the value written out: the n-th
\* ObjectId the driver generates, or a number the client supplied.
ObjectId(n) == [t |-> "ObjectId", v |-> "65f0a1c2e4b0a1b2c3d4e5f" \o ToString(n)]

IntId(n) == [t |-> "int", v |-> ToString(n)]

\* str(_id): the hexadecimal text of an ObjectId, the decimal numeral of a
\* number.  The result is JSON text, no longer a BSON value.
str(id) == id.v

has(d, key) == key \in DOMAIN d

\* A query filter of field equalities; {} matches every document.
matches(doc, filter) ==
    \A f \in DOMAIN filter : has(doc, f) /\ doc[f] = filter[f]

select(docs, filter) == SelectSeq(docs, LAMBDA d : matches(d, filter))

-----------------------------------------------------------------------------
(* The pymongo collection operations the handlers call.  Each takes the    *)
(* documents of the collection (and, for inserts, the count of ObjectIds    *)
(* generated so far) and yields an outcome that carries the collection as   *)
(* the call leaves it, also when the call raises.  `up` tells whether the   *)
(* server answers the call.                                                 *)

Done(docs, v) == [raised |-> FALSE, value |-> v, docs |-> docs]

Fail(docs, exc, msg) == [raised |-> TRUE, exc |-> exc, message |-> msg, docs |-> docs]

\* Python's None, as a result attribute.
None == [t |-> "None"]

ConnectionRefused == "mongodb:27017: [Errno 111] Connection refused"

\* The documents of a batch with the _id the driver gives to those that
\* have none: fresh ObjectIds, in batch order.
with_ids(documents, oid) ==
    [i \in 1..Len(documents) |->
        IF has(documents[i], "_id") THEN documents[i]
        ELSE ("_id" :> ObjectId(oid + Cardinality({j \in 1..i : ~has(documents[j], "_id")})))
             @@ documents[i]]

generated(documents) == Cardinality({j \in 1..Len(documents) : ~has(documents[j], "_id")})

holds_id(docs, id) == \E i \in 1..Len(docs) : docs[i]["_id"] = id

\* Mutant of coll_insert_one: the result names the ObjectId generated before
\* this one, not the _id of the document written.
coll_insert_one_stale_id(docs, document, oid, up) ==
    LET doc == with_ids(<<document>>, oid)[1]
    IN  IF ~up THEN Fail(docs, "ServerSelectionTimeoutError", ConnectionRefused)
        ELSE IF holds_id(docs, doc["_id"])
        THEN Fail(docs, "DuplicateKeyError", "E11000 duplicate key error")
        ELSE Done(Append(docs, doc), [inserted_id |-> ObjectId(oid)])

\* Collection.insert_one
coll_insert_one(docs, document, oid, up) ==
    LET doc == with_ids(<<document>>, oid)[1]
    IN  IF ~up THEN Fail(docs, "ServerSelectionTimeoutError", ConnectionRefused)
        ELSE IF holds_id(docs, doc["_id"])
        THEN Fail(docs, "DuplicateKeyError", "E11000 duplicate key error")
        ELSE Done(Append(docs, doc), [inserted_id |-> doc["_id"]])

\* Mutant of bulk_write: only the first document of the batch is written.
bulk_write_first_only(docs, batch, i) ==
    IF holds_id(docs, batch[1]["_id"]) THEN [docs |-> docs, error |-> TRUE]
    ELSE [docs |-> Append(docs, batch[1]), error |-> FALSE]

\* The server's ordered bulk insert: documents are written one by one and the
\* first that cannot be written ends the batch, those before it staying.
RECURSIVE bulk_write(_, _, _)
bulk_write(docs, batch, i) ==
    IF i > Len(batch) THEN [docs |-> docs, error |-> FALSE]
    ELSE IF holds_id(docs, batch[i]["_id"]) THEN [docs |-> docs, error |-> TRUE]
    ELSE bulk_write(Append(docs, batch[i]), batch, i + 1)

\* Mutant of coll_insert_many: a refused document does not raise, and the
\* result names the documents written before it.
coll_insert_many_partial(docs, documents, oid, up) ==
    IF documents = <<>>
    THEN Fail(docs, "TypeError", "documents must be a non-empty list")
    ELSE LET batch == with_ids(documents, oid)
             w == bulk_write(docs, batch, 1)
         IN  IF ~up THEN Fail(docs, "ServerSelectionTimeoutError", ConnectionRefused)
             ELSE Done(w.docs,
                       [inserted_ids |->
                           [i \in 1..(Len(w.docs) - Len(docs)) |-> batch[i]["_id"]]])

\* Collection.insert_many (ordered=True, the default)
coll_insert_many(docs, documents, oid, up) ==
    IF documents = <<>>
    THEN Fail(docs, "TypeError", "documents must be a non-empty list")
    ELSE LET batch == with_ids(documents, oid)
             w == bulk_write(docs, batch, 1)
         IN  IF ~up THEN Fail(docs, "ServerSelectionTimeoutError", ConnectionRefused)
             ELSE IF w.error
             THEN Fail(w.docs, "BulkWriteError", "batch op errors occurred")
             ELSE Done(w.docs,
                       [inserted_ids |-> [i \in 1..Len(batch) |-> batch[i]["_id"]]])

\* What a skip of n leaves of the matching documents.
cursor_skip(docs, n) == SubSeq(docs, n + 1, Len(docs))

\* What a limit of n leaves: a limit of 0 is no limit.
cursor_limit(docs, n) ==
    IF n = 0 \/ n >= Len(docs) THEN docs ELSE SubSeq(docs, 1, n)

\* Collection.find(filter): a cursor, which nothing has yet run.
coll_find(filter) == [filter |-> filter, skip |-> 0, limit |-> 0]

\* Cursor.skip(n)
skip(cursor, n) == [cursor EXCEPT !.skip = n]

\* Cursor.limit(n)
limit(cursor, n) == [cursor EXCEPT !.limit = n]

\* Mutant of iterate: the limit is applied before the skip.
iterate_limit_first(docs, cursor, up) ==
    IF ~up THEN Fail(docs, "ServerSelectionTimeoutError", ConnectionRefused)
    ELSE Done(docs, cursor_skip(cursor_limit(select(docs, cursor.filter), cursor.limit),
                                cursor.skip))

\* Iterating a cursor runs the query: the server filters, then skips, then
\* limits, in natural order.
iterate(docs, cursor, up) ==
    IF ~up THEN Fail(docs, "ServerSelectionTimeoutError", ConnectionRefused)
    ELSE Done(docs, cursor_limit(cursor_skip(select(docs, cursor.filter), cursor.skip),
                                 cursor.limit))

\* One aggregation stage applied to the documents flowing through it.
stage(docs, st) ==
    IF has(st, "$match") THEN Return(select(docs, st["$match"]))
    ELSE IF has(st, "$limit") THEN Return(SubSeq(docs, 1, IF st["$limit"] < Len(docs)
                                                        THEN st["$limit"] ELSE Len(docs)))
    ELSE Raise("OperationFailure", "Unrecognized pipeline stage name")

RECURSIVE run_pipeline(_, _, _)
run_pipeline(docs, pipeline, i) ==
    IF i > Len(pipeline) THEN Return(docs)
    ELSE LET r == stage(docs, pipeline[i]) IN
         IF r.raised THEN r ELSE run_pipeline(r.value, pipeline, i + 1)

\* Collection.aggregate(pipeline), iterated
coll_aggregate(docs, pipeline, up) ==
    IF ~up THEN Fail(docs, "ServerSelectionTimeoutError", ConnectionRefused)
    ELSE LET r == run_pipeline(docs, pipeline, 1) IN
         IF r.raised THEN Fail(docs, r.exc, r.message)
         ELSE Done(docs, r.value)

\* An update document is accepted when it is made of $ operators.
valid_update(update) == DOMAIN update # {} /\ \A f \in DOMAIN update : f = "$set"

\* $set applied to one document.
apply(doc, update) ==
    [f \in DOMAIN doc \cup DOMAIN update["$set"] |->
        IF has(update["$set"], f) THEN update["$set"][f] ELSE doc[f]]

\* The positions of the documents an update of `many` or of one touches.
targets(docs, filter, many) ==
    LET hit == {i \in 1..Len(docs) : matches(docs[i], filter)} IN
    IF many \/ hit = {} THEN hit
    ELSE {CHOOSE i \in hit : \A j \in hit : i <= j}

coll_update(docs, filter, update, many, up) ==
    IF ~valid_update(update)
    THEN Fail(docs, "ValueError", "update only works with $ operators")
    ELSE IF ~up THEN Fail(docs, "ServerSelectionTimeoutError", ConnectionRefused)
    ELSE LET t == targets(docs, filter, many)
             new == [i \in 1..Len(docs) |->
                        IF i \in t THEN apply(docs[i], update) ELSE docs[i]]
         IN  Done(new,
                 [matched_count |-> Cardinality(t),
                  modified_count |-> Cardinality({i \in t : new[i] # docs[i]}),
                  upserted_id |-> None])

\* Mutant of coll_update_one: the filter is not passed on, every document
\* matches.
coll_update_one_unfiltered(docs, filter, update, up) ==
    coll_update(docs, <<>>, update, FALSE, up)

\* Collection.update_one (upsert=False, the default)
coll_update_one(docs, filter, update, up) == coll_update(docs, filter, update, FALSE, up)

\* Collection.update_many
coll_update_many(docs, filter, update, up) == coll_update(docs, filter, update, TRUE, up)

coll_delete(docs, filter, many, up) ==
    IF ~up THEN Fail(docs, "ServerSelectionTimeoutError", ConnectionRefused)
    ELSE LET t == targets(docs, filter, many)
             keep == {i \in 1..Len(docs) : i \notin t}
             left == [i \in 1..Cardinality(keep) |->
                        docs[CHOOSE p \in keep : Cardinality({q \in keep : q < p}) = i - 1]]
         IN  Done(left, [deleted_count |-> Cardinality(t)])

\* Collection.delete_one
coll_delete_one(docs, filter, up) == coll_delete(docs, filter, FALSE, up)

\* Mutant of coll_delete_many: one matching document is deleted, not all.
coll_delete_many_first(docs, filter, up) == coll_delete(docs, filter, FALSE, up)

\* Collection.delete_many
coll_delete_many(docs, filter, up) == coll_delete(docs, filter, TRUE, up)

-----------------------------------------------------------------------------
(* The request handlers.  A request is its endpoint, its Authorization      *)
(* header and its body; a handler yields the response, the store and the    *)
(* ObjectId count as it leaves them.                                        *)

jsonify(body, status) == [status |-> status, body |-> body]

Unauthorized == jsonify([error |-> "Unauthorized"], 401)

\* JSON null in a response body.
null == [json |-> "null"]

\* request.get_json(): the parsed body, or an exception when the request
\* carries no JSON (which exception, and its text, depend on the Flask version).
get_json(request) ==
    IF request.body.json THEN Return(request.body.data)
    ELSE Raise("Exception", request.body.error)

\* data[key] for each of the keys, in order: the first absent one raises.
RECURSIVE subscripts(_, _, _)
subscripts(data, keys, i) ==
    IF i > Len(keys) THEN Return(data)
    ELSE IF ~has(data, keys[i]) THEN Raise("KeyError", "'" \o keys[i] \o "'")
    ELSE subscripts(data, keys, i + 1)

\* data.get(key, default)
get(data, key, default) == IF has(data, key) THEN data[key] ELSE default

\* The start of every try block: the body and its required fields.
parse(request, keys) ==
    LET j == get_json(request) IN
    IF j.raised THEN j ELSE subscripts(j.value, keys, 1)

get_collection(st, database_name, collection_name) ==
    st[<<database_name, collection_name>>]

\* The store with the collection the request names left as the call left it.
put(st, data, docs) == [st EXCEPT ![<<data.database, data.collection>>] = docs]

\* Mutant of respond: a missing field is reported as a client error, 400.
respond_bad_request(r, st, oid) ==
    [response |-> IF r.raised
                  THEN jsonify([error |-> r.message], IF r.exc = "KeyError" THEN 400 ELSE 500)
                  ELSE jsonify(r.value, 200),
     store |-> st, next_oid |-> oid]

\* The try/except of a handler: the value as a 200, the exception as a 500.
respond(r, st, oid) ==
    [response |-> IF r.raised THEN jsonify([error |-> r.message], 500)
                  ELSE jsonify(r.value, 200),
     store |-> st, next_oid |-> oid]

deny(st, oid) == [response |-> Unauthorized, store |-> st, next_oid |-> oid]

\* The documents of a response: _id converted to text where present.
rendered(docs) ==
    [i \in 1..Len(docs) |->
        [f \in DOMAIN docs[i] |-> IF f = "_id" THEN str(docs[i][f]) ELSE docs[i][f]]]

insert_one(request, st, oid, up) ==
    IF ~authenticate_request(request.Authorization) THEN deny(st, oid)
    ELSE LET p == parse(request, <<"database", "collection", "document">>) IN
         IF p.raised THEN respond(p, st, oid)
         ELSE LET data == p.value
                  collection == get_collection(st, data.database, data.collection)
                  result == coll_insert_one(collection, data.document, oid, up)
              IN  respond(IF result.raised THEN result
                          ELSE Return([insertedId |-> str(result.value.inserted_id),
                                       insertedCount |-> 1]),
                          put(st, data, result.docs),
                          oid + generated(<<data.document>>))

insert_many(request, st, oid, up) ==
    IF ~authenticate_request(request.Authorization) THEN deny(st, oid)
    ELSE LET p == parse(request, <<"database", "collection", "documents">>) IN
         IF p.raised THEN respond(p, st, oid)
         ELSE LET data == p.value
                  collection == get_collection(st, data.database, data.collection)
                  result == coll_insert_many(collection, data.documents, oid, up)
              IN  respond(IF result.raised THEN result
                          ELSE Return([insertedIds |->
                                          [i \in 1..Len(result.value.inserted_ids) |->
                                              str(result.value.inserted_ids[i])],
                                       insertedCount |-> Len(result.value.inserted_ids)]),
                          put(st, data, result.docs),
                          oid + generated(data.documents))

find(request, st, oid, up) ==
    IF ~authenticate_request(request.Authorization) THEN deny(st, oid)
    ELSE LET p == parse(request, <<"database", "collection">>) IN
         IF p.raised THEN respond(p, st, oid)
         ELSE LET data == p.value
                  filter_doc == get(data, "filter", <<>>)
                  skipped == skip(coll_find(filter_doc), get(data, "skip", 0))
                  \* `if limit:` -- an absent limit (None) and a limit of 0 are falsy
                  cursor == IF has(data, "limit") /\ data.limit # 0
                            THEN limit(skipped, data.limit)
                            ELSE skipped
                  collection == get_collection(st, data.database, data.collection)
                  result == iterate(collection, cursor, up)
              IN  respond(IF result.raised THEN result
                          ELSE Return([documents |-> rendered(result.value)]),
                          st, oid)

aggregate(request, st, oid, up) ==
    IF ~authenticate_request(request.Authorization) THEN deny(st, oid)
    ELSE LET p == parse(request, <<"database", "collection", "pipeline">>) IN
         IF p.raised THEN respond(p, st, oid)
         ELSE LET data == p.value
                  collection == get_collection(st, data.database, data.collection)
                  result == coll_aggregate(collection, data.pipeline, up)
              IN  respond(IF result.raised THEN result
                          ELSE Return([documents |-> rendered(result.value)]),
                          st, oid)

update_one(request, st, oid, up) ==
    IF ~authenticate_request(request.Authorization) THEN deny(st, oid)
    ELSE LET p == parse(request, <<"database", "collection", "update">>) IN
         IF p.raised THEN respond(p, st, oid)
         ELSE LET data == p.value
                  filter_criteria == get(data, "filter", <<>>)
                  collection == get_collection(st, data.database, data.collection)
                  result == coll_update_one(collection, filter_criteria, data.update, up)
              IN  respond(IF result.raised THEN result
                          ELSE Return([matchedCount |-> result.value.matched_count,
                                       modifiedCount |-> result.value.modified_count,
                                       upsertedId |->
                                           IF result.value.upserted_id # None
                                           THEN str(result.value.upserted_id)
                                           ELSE null]),
                          put(st, data, result.docs), oid)

update_many(request, st, oid, up) ==
    IF ~authenticate_request(request.Authorization) THEN deny(st, oid)
    ELSE LET p == parse(request, <<"database", "collection", "update">>) IN
         IF p.raised THEN respond(p, st, oid)
         ELSE LET data == p.value
                  filter_criteria == get(data, "filter", <<>>)
                  collection == get_collection(st, data.database, data.collection)
                  result == coll_update_many(collection, filter_criteria, data.update, up)
              IN  respond(IF result.raised THEN result
                          ELSE Return([matchedCount |-> result.value.matched_count,
                                       modifiedCount |-> result.value.modified_count]),
                          put(st, data, result.docs), oid)

delete_one(request, st, oid, up) ==
    IF ~authenticate_request(request.Authorization) THEN deny(st, oid)
    ELSE LET p == parse(request, <<"database", "collection">>) IN
         IF p.raised THEN respond(p, st, oid)
         ELSE LET data == p.value
                  filter_criteria == get(data, "filter", <<>>)
                  collection == get_collection(st, data.database, data.collection)
                  result == coll_delete_one(collection, filter_criteria, up)
              IN  respond(IF result.raised THEN result
                          ELSE Return([deletedCount |-> result.value.deleted_count]),
                          put(st, data, result.docs), oid)

delete_many(request, st, oid, up) ==
    IF ~authenticate_request(request.Authorization) THEN deny(st, oid)
    ELSE LET p == parse(request, <<"database", "collection">>) IN
         IF p.raised THEN respond(p, st, oid)
         ELSE LET data == p.value
                  filter_criteria == get(data, "filter", <<>>)
                  collection == get_collection(st, data.database, data.collection)
                  result == coll_delete_many(collection, filter_criteria, up)
              IN  respond(IF result.raised THEN result
                          ELSE Return([deletedCount |-> result.value.deleted_count]),
                          put(st, data, result.docs), oid)

\* client.admin.command('ping')
ping(up) ==
    IF up THEN Return([ok |-> 1])
    ELSE Raise("ServerSelectionTimeoutError", ConnectionRefused)

\* Mutant of health: the endpoint checks credentials like the others.
health_authenticated(request, st, oid, up) ==
    IF ~authenticate_request(request.Authorization)
    THEN [response |-> jsonify([error |-> "Unauthorized"], 401),
          store |-> st, next_oid |-> oid]
    ELSE [response |-> jsonify([status |-> "healthy",
                                message |-> "DocumentDB API server is running"], 200),
          store |-> st, next_oid |-> oid]

health(request, st, oid, up) ==
    LET r == ping(up) IN
    [response |->
        IF r.raised THEN jsonify([status |-> "unhealthy", error |-> r.message], 500)
        ELSE jsonify([status |-> "healthy",
                      message |-> "DocumentDB API server is running"], 200),
     store |-> st, next_oid |-> oid]

-----------------------------------------------------------------------------
(* The requests the clients send.                                          *)

\* ord() of a printable ASCII character.
Ord(c) == 31 + CHOOSE i \in 1..Len(Ascii) : Ascii[i] = c

Bytes(text) == [i \in 1..Len(text) |-> Ord(text[i])]

\* base64.b64encode, as a client computes the payload of its header.
RECURSIVE b64encode(_)
b64encode(bytes) ==
    LET ch(v) == B64Alphabet[v + 1] IN
    CASE Len(bytes) = 0 -> <<>>
      [] Len(bytes) = 1 ->
            <<ch(bytes[1] \div 4), ch((bytes[1] % 4) * 16), "=", "=">>
      [] Len(bytes) = 2 ->
            <<ch(bytes[1] \div 4), ch((bytes[1] % 4) * 16 + bytes[2] \div 16),
              ch((bytes[2] % 16) * 4), "=">>
      [] OTHER ->
            <<ch(bytes[1] \div 4), ch((bytes[1] % 4) * 16 + bytes[2] \div 16),
              ch((bytes[2] % 16) * 4 + bytes[3] \div 64), ch(bytes[3] % 64)>>
            \o b64encode(Tail_from(bytes, 4))

\* The header a client builds for a username and a password.
basic_auth(username, password) ==
    BasicPrefix \o b64encode(Bytes(username \o <<":">> \o password))

ValidHeader == basic_auth(Username, Password)

WrongPasswordHeader == basic_auth(Username, <<"w", "r", "o", "n", "g">>)

\* The valid header with a character that is no base64 appended to it.
TrailingJunkHeader == ValidHeader \o <<"!">>

Headers == {NoHeader, ValidHeader, WrongPasswordHeader, TrailingJunkHeader}

Databases == {"test_db"}

Collections == {"orders"}

Namespaces == Databases \X Collections

Vals == {1, 2}

ClientIds == {IntId(7)}

MaxDocs == 2

MaxBatch == 2

\* No more ObjectIds are generated than a collection may hold documents.
MaxOids(cap) == cap

Documents ==
    {[k |-> v] : v \in Vals} \cup {[_id |-> id, k |-> 1] : id \in ClientIds}

Batches == UNION {[1..n -> Documents] : n \in 0..MaxBatch}

Filters == {<<>>, [k |-> 1]}

Updates == {("$set" :> [k |-> 1]), ("$set" :> [k |-> 2]), [k |-> 1]}

Pipelines ==
    {<<>>, <<("$match" :> [k |-> 1])>>, <<("$limit" :> 1)>>, <<("$nosuchstage" :> 1)>>}

Skips == {1}

Limits == {0, 1}

\* A field that may be absent: no field, or the field with one of the values.
Optional(key, values) == {<<>>} \cup {(key :> v) : v \in values}

Both(A, B) == {a @@ b : a \in A, b \in B}

FindPayloads(filters, skips, limits) ==
    Both(Optional("filter", filters),
         Both(Optional("skip", skips), Optional("limit", limits)))

\* The action-specific fields of a body, present or not.
Payloads(endpoint) ==
    CASE endpoint = "insertOne" -> Optional("document", Documents)
      [] endpoint = "insertMany" -> Optional("documents", Batches)
      [] endpoint = "find" -> FindPayloads(Filters, Skips, Limits)
      [] endpoint = "aggregate" -> Optional("pipeline", Pipelines)
      [] endpoint \in {"updateOne", "updateMany"} ->
            Both(Optional("filter", Filters), Optional("update", Updates))
      [] endpoint \in {"deleteOne", "deleteMany"} -> Optional("filter", Filters)

\* A payload with every field the action knows, for bodies that lack a
\* database or a collection.
FullPayload(endpoint) ==
    CASE endpoint = "insertOne" -> [document |-> [k |-> 1]]
      [] endpoint = "insertMany" -> [documents |-> <<[k |-> 1]>>]
      [] endpoint = "find" -> [filter |-> <<>>, skip |-> 0, limit |-> 1]
      [] endpoint = "aggregate" -> [pipeline |-> <<>>]
      [] endpoint \in {"updateOne", "updateMany"} ->
            [filter |-> <<>>, update |-> ("$set" :> [k |-> 2])]
      [] endpoint \in {"deleteOne", "deleteMany"} -> [filter |-> <<>>]

Json(data) == [json |-> TRUE, data |-> data]

\* A request without a JSON body: newer Flask raises UnsupportedMediaType in
\* get_json(), older Flask returns None, whose subscript is a TypeError.
NotJson ==
    {[json |-> FALSE, error |-> e] :
        e \in {"415 Unsupported Media Type", "'NoneType' object is not subscriptable"}}

Bodies(endpoint) ==
    NotJson
    \cup {Json([database |-> d, collection |-> c] @@ p) :
            d \in Databases, c \in Collections, p \in Payloads(endpoint)}
    \cup {Json([database |-> d] @@ FullPayload(endpoint)) : d \in Databases}
    \cup {Json([collection |-> c] @@ FullPayload(endpoint)) : c \in Collections}

Request(endpoint, header, body) ==
    [endpoint |-> endpoint, Authorization |-> header, body |-> body]

Requests(endpoint) ==
    {Request(endpoint, h, b) : h \in Headers, b \in Bodies(endpoint)}

NoRequest == [endpoint |-> "none"]

NoResponse == [status |-> 0]

-----------------------------------------------------------------------------
(* The state machine.  The server answers one request at a time: a handler  *)
(* runs from the arrival of its request to its response, in one step, and   *)
(* the response is then sent.                                               *)

Init ==
    /\ store = [ns \in Namespaces |-> <<>>]
    /\ next_oid = 0
    /\ req = NoRequest
    /\ resp = NoResponse
    /\ before = store
    /\ mongo_up = TRUE

\* Request `request` arrives and its handler, with outcome `out`, answers it.
\* `cap` bounds the documents of a collection and the ObjectIds generated.
Serve(request, out, cap) ==
    /\ req = NoRequest
    /\ \A ns \in Namespaces : Len(out.store[ns]) <= cap
    /\ out.next_oid <= MaxOids(cap)
    /\ req' = request
    /\ resp' = out.response
    /\ store' = out.store
    /\ next_oid' = out.next_oid
    /\ before' = store
    /\ UNCHANGED mongo_up

InsertOne ==
    \E r \in Requests("insertOne") :
        /\ r.endpoint = "insertOne"
        /\ Serve(r, insert_one(r, store, next_oid, mongo_up), MaxDocs)

InsertMany ==
    \E r \in Requests("insertMany") :
        /\ r.endpoint = "insertMany"
        /\ Serve(r, insert_many(r, store, next_oid, mongo_up), MaxDocs)

Find ==
    \E r \in Requests("find") :
        /\ r.endpoint = "find"
        /\ Serve(r, find(r, store, next_oid, mongo_up), MaxDocs)

Aggregate ==
    \E r \in Requests("aggregate") :
        /\ r.endpoint = "aggregate"
        /\ Serve(r, aggregate(r, store, next_oid, mongo_up), MaxDocs)

UpdateOne ==
    \E r \in Requests("updateOne") :
        /\ r.endpoint = "updateOne"
        /\ Serve(r, update_one(r, store, next_oid, mongo_up), MaxDocs)

UpdateMany ==
    \E r \in Requests("updateMany") :
        /\ r.endpoint = "updateMany"
        /\ Serve(r, update_many(r, store, next_oid, mongo_up), MaxDocs)

DeleteOne ==
    \E r \in Requests("deleteOne") :
        /\ r.endpoint = "deleteOne"
        /\ Serve(r, delete_one(r, store, next_oid, mongo_up), MaxDocs)

DeleteMany ==
    \E r \in Requests("deleteMany") :
        /\ r.endpoint = "deleteMany"
        /\ Serve(r, delete_many(r, store, next_oid, mongo_up), MaxDocs)

\* GET /health carries no body.
Health ==
    \E h \in Headers :
        LET r == Request("health", h, [json |-> FALSE, error |-> ""]) IN
        /\ r.endpoint = "health"
        /\ Serve(r, health(r, store, next_oid, mongo_up), MaxDocs)

\* The response is sent; the handler keeps nothing of the request.
SendResponse ==
    /\ req # NoRequest
    /\ req' = NoRequest
    /\ resp' = NoResponse
    /\ before' = store
    /\ UNCHANGED <<store, next_oid, mongo_up>>

\* The MongoDB server stops answering, or answers again.
MongoStops ==
    /\ req = NoRequest
    /\ mongo_up
    /\ mongo_up' = FALSE
    /\ UNCHANGED <<store, next_oid, req, resp, before>>

MongoStarts ==
    /\ req = NoRequest
    /\ ~mongo_up
    /\ mongo_up' = TRUE
    /\ UNCHANGED <<store, next_oid, req, resp, before>>

Next ==
    \/ InsertOne
    \/ InsertMany
    \/ Find
    \/ Aggregate
    \/ UpdateOne
    \/ UpdateMany
    \/ DeleteOne
    \/ DeleteMany
    \/ Health
    \/ SendResponse
    \/ MongoStops
    \/ MongoStarts

Spec == Init /\ [][Next]_vars

-----------------------------------------------------------------------------
(* A second specification: a collection filled by insertOne, document by    *)
(* document, and queried by find with every combination of filter, skip     *)
(* and limit.                                                               *)

MaxFindDocs == 5

FindSkips == {0, 1, 2}

FindLimits == {0, 1, 2}

Populate ==
    \E v \in Vals, d \in Databases, c \in Collections :
        LET r == Request("insertOne", ValidHeader,
                         Json([database |-> d, collection |-> c, document |-> [k |-> v]]))
        IN  /\ r.endpoint = "insertOne"
            /\ mongo_up
            /\ Serve(r, insert_one(r, store, next_oid, mongo_up), MaxFindDocs)

Query ==
    \E p \in FindPayloads(Filters, FindSkips, FindLimits),
       d \in Databases, c \in Collections :
        LET r == Request("find", ValidHeader,
                         Json([database |-> d, collection |-> c] @@ p))
        IN  /\ r.endpoint = "find"
            /\ Serve(r, find(r, store, next_oid, mongo_up), MaxFindDocs)

NextFind ==
    \/ Populate
    \/ Query
    \/ SendResponse

SpecFind == Init /\ [][NextFind]_vars

-----------------------------------------------------------------------------
(* A third specification: authenticate_request alone, applied to the        *)
(* headers a client can build around the valid one.                         *)

Insert(s, i, c) == SubSeq(s, 1, i) \o <<c>> \o SubSeq(s, i + 1, Len(s))

Remove(s, i) == SubSeq(s, 1, i - 1) \o SubSeq(s, i + 1, Len(s))

Replace(s, i, c) == [s EXCEPT ![i] = c]

ValidPayload == b64encode(Bytes(Username \o <<":">> \o Password))

\* One base64 character, the pad, and two characters that are no base64.
Edits == {"A", "=", "!", " "}

EditedPayloads ==
    {Insert(ValidPayload, i, c) : i \in 0..Len(ValidPayload), c \in Edits}
    \cup {Remove(ValidPayload, i) : i \in 1..Len(ValidPayload)}
    \cup {Replace(ValidPayload, i, c) : i \in 1..Len(ValidPayload), c \in Edits}

\* Credentials that are not the configured pair, or no credentials at all.
OtherPayloads ==
    { b64encode(Bytes(Username \o <<":">> \o <<"w", "r", "o", "n", "g">>)),
      b64encode(Bytes(<<"a", "d", "m", "i", "n", ":">> \o Password)),
      b64encode(Bytes(Username \o Password)),
      b64encode(Bytes(Username \o <<":">> \o Password \o <<":", "x">>)),
      b64encode(Bytes(Username \o <<":">>)),
      b64encode(Bytes(Password \o <<":">> \o Username)),
      b64encode(<<255>> \o Bytes(<<":">> \o Password)),
      b64encode(<<195, 169>> \o Bytes(<<":">> \o Password)),
      Username \o <<":">> \o Password,
      <<>> }

OtherSchemes ==
    { <<"b", "a", "s", "i", "c", " ">>,
      <<"B", "e", "a", "r", "e", "r", " ">>,
      <<"B", "a", "s", "i", "c">>,
      <<" ">> \o BasicPrefix,
      <<>> }

AuthHeaders ==
    {NoHeader}
    \cup {BasicPrefix \o p : p \in {ValidPayload} \cup EditedPayloads \cup OtherPayloads}
    \cup {sch \o ValidPayload : sch \in OtherSchemes}

Authenticate ==
    \E h \in AuthHeaders :
        /\ req' = [endpoint |-> "authenticate_request", Authorization |-> h]
        /\ resp' = [allow |-> authenticate_request(h)]
        /\ UNCHANGED <<store, next_oid, before, mongo_up>>

NextAuth == Authenticate

SpecAuth == Init /\ [][NextAuth]_vars

-----------------------------------------------------------------------------
(* Properties.  In a state where a request has been answered, `req` is the  *)
(* request, `resp` its response, `before` the store as the request found it *)
(* and `store` the store as it left it.                                     *)

ActionEndpoints ==
    {"insertOne", "insertMany", "find", "aggregate",
     "updateOne", "updateMany", "deleteOne", "deleteMany"}

\* The fields an action cannot do without.
RequiredFields(endpoint) ==
    {"database", "collection"}
    \cup CASE endpoint = "insertOne" -> {"document"}
           [] endpoint = "insertMany" -> {"documents"}
           [] endpoint = "aggregate" -> {"pipeline"}
           [] endpoint \in {"updateOne", "updateMany"} -> {"update"}
           [] OTHER -> {}

Answered(endpoint) == req.endpoint = endpoint

Authenticated == authenticate_request(req.Authorization)

\* The request has a JSON body with every required field of its action.
Complete ==
    /\ req.body.json
    /\ RequiredFields(req.endpoint) \subseteq DOMAIN req.body.data

Target == <<req.body.data.database, req.body.data.collection>>

FieldOr(key, default) ==
    IF key \in DOMAIN req.body.data THEN req.body.data[key] ELSE default

\* The documents of `docs` that a filter of field equalities selects, in order.
Selected(docs, filter) ==
    SelectSeq(docs, LAMBDA d : \A f \in DOMAIN filter : f \in DOMAIN d /\ d[f] = filter[f])

Drop(s, n) == [i \in 1..(IF Len(s) > n THEN Len(s) - n ELSE 0) |-> s[i + n]]

Take(s, n) == [i \in 1..(IF Len(s) > n THEN n ELSE Len(s)) |-> s[i]]

\* A stored document as a response shows it: its _id as text.
Shown(d) == [f \in DOMAIN d |-> IF f = "_id" THEN d[f].v ELSE d[f]]

ShownAll(docs) == [i \in 1..Len(docs) |-> Shown(docs[i])]

\* The response an authenticated find with the given optional fields would
\* get in the current state, the database answering.
FindNow(target, options) ==
    find(Request("find", ValidHeader,
                 Json([database |-> target[1], collection |-> target[2]] @@ options)),
         store, next_oid, TRUE).response

\* C1: on every action endpoint, a request whose Authorization header is
\* absent, malformed or carries other credentials than the configured pair
\* (that is, any header but 'Basic ' + base64('testuser:testpass')) is
\* answered 401 {error: "Unauthorized"} and leaves the store as it was,
\* whatever its body.
C1_UnauthorizedIsRefused ==
    (req.endpoint \in ActionEndpoints /\ req.Authorization # basic_auth(Username, Password))
        => (resp = jsonify([error |-> "Unauthorized"], 401) /\ store = before)

\* C2: authenticate_request allows exactly the header 'Basic ' followed by
\* the base64 of 'testuser:testpass', and denies every other header.
C2_AllowsExactlyTheConfiguredPair ==
    Answered("authenticate_request")
        => (resp.allow <=> req.Authorization = basic_auth(Username, Password))

\* C3: on every action endpoint, an authenticated request whose body lacks a
\* required field (or is no JSON at all) is answered 500 with a body that is
\* just {error: <message>}, the message not empty; the store is untouched and
\* the message is that of the missing field, not of the database, which is
\* never called.
C3_MissingFieldIs500 ==
    (req.endpoint \in ActionEndpoints /\ Authenticated /\ ~Complete)
        => /\ resp.status = 500
           /\ DOMAIN resp.body = {"error"}
           /\ resp.body.error # ""
           /\ resp.body.error # ConnectionRefused
           /\ store = before

C3_Witness ==
    /\ Answered("updateOne")
    /\ Authenticated
    /\ req.body.json
    /\ DOMAIN req.body.data = {"database", "collection", "filter"}
    /\ ~mongo_up
    /\ resp = jsonify([error |-> "'update'"], 500)

\* What find answers, given how a limit is read.
FindAnswer(unbounded) ==
    LET docs == Drop(Selected(before[Target], FieldOr("filter", <<>>)), FieldOr("skip", 0))
    IN  ShownAll(IF unbounded THEN docs ELSE Take(docs, req.body.data.limit))

\* C4, as claimed: find returns, in store order, the documents matching the
\* filter, less the first `skip`, and then at most `limit` of them; an absent
\* filter matches all, an absent skip is 0, an absent limit is unbounded.
C4_FindKeepsAtMostLimit ==
    (Answered("find") /\ Authenticated /\ Complete /\ mongo_up)
        => /\ resp.status = 200
           /\ resp.body.documents = FindAnswer(~("limit" \in DOMAIN req.body.data))

\* C4, amended: as claimed for a limit of 1 or more; a limit of 0 is
\* unbounded, like an absent one.
C4_FindSkipsThenLimits ==
    (Answered("find") /\ Authenticated /\ Complete /\ mongo_up)
        => /\ resp.status = 200
           /\ resp.body.documents = FindAnswer(FieldOr("limit", 0) = 0)

\* Five documents, skip=2, limit=1: exactly the third is returned.
C4_Witness ==
    /\ Answered("find")
    /\ Complete
    /\ Len(before[Target]) = 5
    /\ DOMAIN req.body.data = {"database", "collection", "skip", "limit"}
    /\ req.body.data.skip = 2
    /\ req.body.data.limit = 1
    /\ resp.body.documents = <<Shown(before[Target][3])>>

\* C5: after a successful insertOne into an empty collection, a find with an
\* empty filter returns exactly one document, whose _id is the text that the
\* insertOne response gave as insertedId.
C5_FindReturnsTheInsertedId ==
    (Answered("insertOne") /\ resp.status = 200 /\ before[Target] = <<>>)
        => LET found == FindNow(Target, [filter |-> <<>>]) IN
           /\ found.status = 200
           /\ Len(found.body.documents) = 1
           /\ found.body.documents[1]["_id"] = resp.body.insertedId

C5_Witness ==
    /\ Answered("insertOne")
    /\ resp.status = 200
    /\ before[Target] = <<>>
    /\ "_id" \notin DOMAIN req.body.data.document
    /\ Len(store[Target]) = 1

\* The _id values a batch brings with it are all different and none is held
\* by the collection: nothing makes the database refuse a document.
NoDuplicateKey ==
    LET batch == req.body.data.documents
        ids == {batch[i]["_id"] : i \in {j \in 1..Len(batch) : "_id" \in DOMAIN batch[j]}}
    IN  /\ Cardinality(ids)
             = Cardinality({j \in 1..Len(batch) : "_id" \in DOMAIN batch[j]})
        /\ \A i \in 1..Len(before[Target]) : before[Target][i]["_id"] \notin ids

\* What C6 promises of a batch of N documents.
InsertedAndFound(N) ==
    /\ resp.status = 200
    /\ resp.body.insertedCount = N
    /\ Len(resp.body.insertedIds) = N
    /\ LET found == FindNow(Target, [limit |-> N]) IN
       /\ found.status = 200
       /\ Len(found.body.documents) = N

\* C6, as claimed: for every N, an insertMany of N documents (that the
\* database has no reason to refuse) returns insertedCount N and N
\* insertedIds, and a find with limit=N then returns N documents.
C6_EveryBatchIsInserted ==
    (Answered("insertMany") /\ Authenticated /\ Complete /\ mongo_up /\ NoDuplicateKey)
        => InsertedAndFound(Len(req.body.data.documents))

\* C6, amended: as claimed for every N of 1 or more.
C6_NonEmptyBatchIsInserted ==
    (Answered("insertMany") /\ Authenticated /\ Complete /\ mongo_up /\ NoDuplicateKey
        /\ Len(req.body.data.documents) >= 1)
        => InsertedAndFound(Len(req.body.data.documents))

C6_Witness ==
    /\ Answered("insertMany")
    /\ resp.status = 200
    /\ Len(req.body.data.documents) = MaxBatch
    /\ resp.body.insertedCount = MaxBatch
    /\ before[Target] = <<>>

\* C7, as claimed: an insertMany either returns the identifiers of all its
\* documents, all of them stored, or fails with an error response and no
\* part of the batch takes effect.
C7_AllOrNothing ==
    (Answered("insertMany") /\ Authenticated /\ Complete)
        => \/ /\ resp.status = 200
              /\ Len(resp.body.insertedIds) = Len(req.body.data.documents)
              /\ Len(store[Target]) = Len(before[Target]) + Len(req.body.data.documents)
           \/ /\ resp.status = 500
              /\ store = before

\* C7, amended: an insertMany either returns the identifiers of all its
\* documents, all of them stored, or answers with an error that reports no
\* identifier at all; the documents that precede the one the database
\* refused may stay stored.
C7_NoPartialReport ==
    (Answered("insertMany") /\ Authenticated /\ Complete)
        => \/ /\ resp.status = 200
              /\ resp.body.insertedCount = Len(req.body.data.documents)
              /\ Len(resp.body.insertedIds) = Len(req.body.data.documents)
              /\ Len(store[Target]) = Len(before[Target]) + Len(req.body.data.documents)
           \/ /\ resp.status = 500
              /\ DOMAIN resp.body = {"error"}
              /\ \E n \in 0..Len(req.body.data.documents) :
                    Len(store[Target]) = Len(before[Target]) + n
              /\ SubSeq(store[Target], 1, Len(before[Target])) = before[Target]

\* A batch that the database refuses at its second document, the first
\* one staying stored.
C7_Witness ==
    /\ Answered("insertMany")
    /\ Authenticated
    /\ Complete
    /\ resp.status = 500
    /\ DOMAIN resp.body = {"error"}
    /\ Len(req.body.data.documents) = 2
    /\ Len(store[Target]) = Len(before[Target]) + 1

\* C8: after a successful deleteMany whose filter matches every document of
\* the collection, deletedCount is the number of documents the collection
\* held and an unfiltered find returns no document.
C8_DeleteManyEmptiesTheCollection ==
    (Answered("deleteMany") /\ resp.status = 200
        /\ Selected(before[Target], FieldOr("filter", <<>>)) = before[Target])
        => /\ resp.body.deletedCount = Len(before[Target])
           /\ LET found == FindNow(Target, <<>>) IN
              /\ found.status = 200
              /\ found.body.documents = <<>>

C8_Witness ==
    /\ Answered("deleteMany")
    /\ resp.status = 200
    /\ Len(before[Target]) = 2
    /\ FieldOr("filter", <<>>) = [k |-> 1]
    /\ resp.body.deletedCount = 2
    /\ store[Target] = <<>>

\* C9: an updateOne (its update made of $ operators, the database answering)
\* whose filter matches no document returns matchedCount 0, modifiedCount 0
\* and upsertedId null.
C9_UpdateOneMatchingNothing ==
    (Answered("updateOne") /\ Authenticated /\ Complete /\ mongo_up
        /\ DOMAIN req.body.data.update = {"$set"}
        /\ Selected(before[Target], FieldOr("filter", <<>>)) = <<>>)
        => resp = jsonify([matchedCount |-> 0, modifiedCount |-> 0, upsertedId |-> null],
                          200)

C9_Witness ==
    /\ Answered("updateOne")
    /\ resp.status = 200
    /\ before[Target] # <<>>
    /\ FieldOr("filter", <<>>) = [k |-> 1]
    /\ resp.body.matchedCount = 0

\* C10: health checks no credentials: whatever the Authorization header, it
\* answers healthy with its static message when the ping succeeds, unhealthy
\* with the message of the failure when it fails, and leaves the store alone.
C10_HealthNeedsNoAuth ==
    Answered("health")
        => /\ mongo_up =>
                resp = jsonify([status |-> "healthy",
                                message |-> "DocumentDB API server is running"], 200)
           /\ ~mongo_up =>
                resp = jsonify([status |-> "unhealthy", error |-> ConnectionRefused], 500)
           /\ store = before

C10_Witness ==
    /\ Answered("health")
    /\ req.Authorization = NoHeader
    /\ ~mongo_up
    /\ resp.body.status = "unhealthy"

=============================================================================
